---- MODULE Spec2Model ----
(***************************************************************************)
(* A model of the aicommits generation pipeline: configuration resolution  *)
(* (utils/config.ts), staged-change collection and branch query            *)
(* (utils/git.ts), candidate post-processing (utils/openai.ts) and the     *)
(* orchestrating handler (commands/aicommits.ts).                          *)
(*                                                                         *)
(* JavaScript strings are sequences of one-character strings, so that the  *)
(* regular expressions, trim, toLowerCase and concatenation of the source  *)
(* are computed rather than assumed.                                       *)
(***************************************************************************)
EXTENDS Integers, Sequences, FiniteSets, TLC

VARIABLES
    pc,         \* position of the run inside aicommitsHandler / getConfig
    opts,       \* AicommitsOptions handed to the handler by cli.ts
    env,        \* process.env entries that loadConfig reads
    file,       \* the text of each key of ~/.aicommits (Absent: key not in file)
    git,        \* repository facts: staged and modified tracked files, branch
    staged,     \* result of getStagedChanges
    config,     \* result of getConfig
    candidates, \* the messages generateMessages returned
    messages,   \* the candidates as presented (prefixed when enabled)
    cursor,     \* loop index of the per-candidate prefix loop
    selected,   \* result of selectCommitMessage
    final,      \* finalMessage of createCommit and clipboardSuccess
    log,        \* external effects in order (git calls, API call, clipboard, prompts)
    out         \* what the run printed, and its exit status

vars == <<pc, opts, env, file, git, staged, config, candidates, messages, cursor, selected, final, log, out>>

-----------------------------------------------------------------------------
(* Characters and strings *)

LowerSeq == <<"a","b","c","d","e","f","g","h","i","j","k","l","m",
              "n","o","p","q","r","s","t","u","v","w","x","y","z">>
UpperSeq == <<"A","B","C","D","E","F","G","H","I","J","K","L","M",
              "N","O","P","Q","R","S","T","U","V","W","X","Y","Z">>
DigitSeq == <<"0","1","2","3","4","5","6","7","8","9">>

Range(f) == {f[i] : i \in DOMAIN f}

Lower == Range(LowerSeq)
Upper == Range(UpperSeq)
Digit == Range(DigitSeq)
Letter == Lower \cup Upper
\* \w of a JavaScript regular expression
WordChar == Letter \cup Digit \cup {"_"}
\* \s, and what String.prototype.trim removes, among the characters used here
WhiteSpace == {" ", "\t", "\n", "\r"}

IndexIn(seq, c) == CHOOSE i \in DOMAIN seq : seq[i] = c

toLowerChar(c) == IF c \in Upper THEN LowerSeq[IndexIn(UpperSeq, c)] ELSE c
toUpperChar(c) == IF c \in Lower THEN UpperSeq[IndexIn(LowerSeq, c)] ELSE c

toLowerCase(s) == [i \in DOMAIN s |-> toLowerChar(s[i])]
toUpperCase(s) == [i \in DOMAIN s |-> toUpperChar(s[i])]

\* String.prototype.trim
RECURSIVE trimStart(_)
trimStart(s) == IF s # <<>> /\ Head(s) \in WhiteSpace THEN trimStart(Tail(s)) ELSE s

RECURSIVE trimEnd(_)
trimEnd(s) ==
    IF s # <<>> /\ s[Len(s)] \in WhiteSpace THEN trimEnd(SubSeq(s, 1, Len(s) - 1)) ELSE s

trim(s) == trimEnd(trimStart(s))

startsWith(s, p) == Len(s) >= Len(p) /\ SubSeq(s, 1, Len(p)) = p

\* /^\d+$/.test(s)
IsDigits(s) == s # <<>> /\ \A i \in DOMAIN s : s[i] \in Digit

\* Number(s) for a string of decimal digits
RECURSIVE Number(_)
Number(s) ==
    IF s = <<>> THEN 0
    ELSE 10 * Number(SubSeq(s, 1, Len(s) - 1)) + (IndexIn(DigitSeq, s[Len(s)]) - 1)

\* String(n) for a natural number
RECURSIVE NumberToString(_)
NumberToString(n) ==
    IF n < 10 THEN <<DigitSeq[n + 1]>>
    ELSE NumberToString(n \div 10) \o <<DigitSeq[(n % 10) + 1]>>

-----------------------------------------------------------------------------
(* JavaScript values: strings, booleans, numbers, null and undefined *)

S_true == <<"t","r","u","e">>
S_false == <<"f","a","l","s","e">>
S_null == <<"n","u","l","l">>
S_undefined == <<"u","n","d","e","f","i","n","e","d">>

Str(s) == [t |-> "str", s |-> s, n |-> 0]
Bool(b) == [t |-> "bool", s |-> IF b THEN S_true ELSE S_false, n |-> 0]
Num(n) == [t |-> "num", s |-> <<>>, n |-> n]
NaN == [t |-> "nan", s |-> <<>>, n |-> 0]
Null == [t |-> "null", s |-> <<>>, n |-> 0]
Undefined == [t |-> "undef", s |-> <<>>, n |-> 0]

\* String(v)
String(v) ==
    CASE v.t = "str" -> v.s
      [] v.t = "bool" -> v.s
      [] v.t = "num" -> NumberToString(v.n)
      [] v.t = "nan" -> <<"N","a","N">>
      [] v.t = "null" -> S_null
      [] OTHER -> S_undefined

\* Boolean(v): JavaScript truthiness
Truthy(v) ==
    CASE v.t = "str" -> v.s # <<>>
      [] v.t = "bool" -> v.s = S_true
      [] v.t = "num" -> v.n # 0
      [] OTHER -> FALSE

\* a ?? b
Nullish(v) == v.t \in {"null", "undef"}
Coalesce(a, b) == IF Nullish(a) THEN b ELSE a

\* a || b
Or(a, b) == IF Truthy(a) THEN a ELSE b

-----------------------------------------------------------------------------
(* utils/config.ts *)

K_KEY == "OPENAI_KEY"
K_UBP == "use-branch-prefix"

\* Object.keys(configParsers), in declaration order
ConfigKeys == <<"OPENAI_KEY", "locale", "generate", "type", "proxy", "model",
                "timeout", "max-length", "use-branch-prefix">>
KeySet == Range(ConfigKeys)

commitTypes == {Str(<<>>), Str(<<"c","o","n","v","e","n","t","i","o","n","a","l">>)}

DEFAULT_CONFIG ==
    [x \in {"model", "locale", "generate", "timeout", "max-length", "type",
            "use-branch-prefix"} |->
        CASE x = "model" -> Str(<<"g","p","t","-","3",".","5","-","t","u","r","b","o">>)
          [] x = "locale" -> Str(<<"e","n">>)
          [] x = "generate" -> Num(1)
          [] x = "timeout" -> Num(10000)
          [] x = "max-length" -> Num(50)
          [] x = "type" -> Str(<<>>)
          [] OTHER -> Bool(FALSE)]

NoError == [kind |-> "none", prop |-> "", msg |-> ""]
\* new KnownError(msg); prop is the configuration key the message names
KnownError(prop, msg) == [kind |-> "KnownError", prop |-> prop, msg |-> msg]
\* an Error that is not a KnownError
UnknownError(msg) == [kind |-> "Error", prop |-> "", msg |-> msg]

Returns(v) == [ok |-> TRUE, val |-> v, err |-> NoError]
Throws(e) == [ok |-> FALSE, val |-> Undefined, err |-> e]

\* parseAssert(name, condition, message) followed by the rest of the parser
parseAssert(name, condition, message, rest) ==
    IF ~condition THEN Throws(KnownError(name, message)) ELSE rest

truthyTokens == {S_true, <<"1">>, <<"y","e","s">>, <<"y">>, <<"o","n">>}
falsyTokens == {S_false, <<"0">>, <<"n","o">>, <<"n">>, <<"o","f","f">>}

\* /^[a-z-]+$/i.test(s)
IsLocale(s) == s # <<>> /\ \A i \in DOMAIN s : s[i] \in Letter \cup {"-"}

\* /^https?:\/\//.test(s)
IsUrl(s) ==
    \/ startsWith(s, <<"h","t","t","p",":","/","/">>)
    \/ startsWith(s, <<"h","t","t","p","s",":","/","/">>)

\* the key parser without the check of the "sk-" prefix
parse_OPENAI_KEY_anyKey(key) ==
    IF ~Truthy(key)
    THEN Throws(KnownError(K_KEY, "Please set your OpenAI API key via aicommits config set OPENAI_KEY"))
    ELSE Returns(key)

parse_OPENAI_KEY(key) ==
    IF ~Truthy(key)
    THEN Throws(KnownError(K_KEY, "Please set your OpenAI API key via aicommits config set OPENAI_KEY"))
    ELSE IF key.t # "str"
    THEN Throws(UnknownError("key.startsWith is not a function"))
    ELSE parseAssert(K_KEY, startsWith(key.s, <<"s","k","-">>), "Must start with sk-",
                     Returns(key))

parse_locale(locale) ==
    IF ~Truthy(locale) THEN Returns(DEFAULT_CONFIG["locale"])
    ELSE parseAssert("locale", Truthy(locale), "Cannot be empty",
         parseAssert("locale", IsLocale(String(locale)), "Must be a valid locale",
                     Returns(locale)))

\* the count parser without the upper limit
parse_generate_noUpperLimit(count) ==
    IF ~Truthy(count) THEN Returns(DEFAULT_CONFIG["generate"])
    ELSE parseAssert("generate", IsDigits(String(count)), "Must be an integer",
         LET parsed == Number(String(count)) IN
         parseAssert("generate", parsed > 0, "Must be greater than 0",
                     Returns(Num(parsed))))

parse_generate(count) ==
    IF ~Truthy(count) THEN Returns(DEFAULT_CONFIG["generate"])
    ELSE parseAssert("generate", IsDigits(String(count)), "Must be an integer",
         LET parsed == Number(String(count)) IN
         parseAssert("generate", parsed > 0, "Must be greater than 0",
         parseAssert("generate", parsed <= 5, "Must be less or equal to 5",
                     Returns(Num(parsed)))))

parse_type(type) ==
    IF ~Truthy(type) THEN Returns(DEFAULT_CONFIG["type"])
    ELSE parseAssert("type", type \in commitTypes, "Invalid commit type", Returns(type))

parse_proxy(url) ==
    IF ~Truthy(url) \/ (url.t = "str" /\ Len(url.s) = 0) THEN Returns(Undefined)
    ELSE parseAssert("proxy", IsUrl(String(url)), "Must be a valid URL", Returns(url))

parse_model(model) ==
    IF ~Truthy(model) \/ (model.t = "str" /\ Len(model.s) = 0)
    THEN Returns(DEFAULT_CONFIG["model"])
    ELSE Returns(model)

parse_timeout(timeout) ==
    IF ~Truthy(timeout) THEN Returns(DEFAULT_CONFIG["timeout"])
    ELSE parseAssert("timeout", IsDigits(String(timeout)), "Must be an integer",
         LET parsed == Number(String(timeout)) IN
         parseAssert("timeout", parsed >= 500, "Must be greater than 500ms",
                     Returns(Num(parsed))))

parse_max_length(maxLength) ==
    IF ~Truthy(maxLength) THEN Returns(DEFAULT_CONFIG["max-length"])
    ELSE parseAssert("max-length", IsDigits(String(maxLength)), "Must be an integer",
         LET parsed == Number(String(maxLength)) IN
         parseAssert("max-length", parsed >= 20, "Must be greater than 20 characters",
                     Returns(Num(parsed))))

parse_use_branch_prefix(value) ==
    IF Nullish(value) \/ value = Str(<<>>) THEN Returns(DEFAULT_CONFIG[K_UBP])
    ELSE LET lowerValue == trim(toLowerCase(String(value))) IN
         IF lowerValue \in truthyTokens THEN Returns(Bool(TRUE))
         ELSE IF lowerValue \in falsyTokens THEN Returns(Bool(FALSE))
         ELSE parseAssert(K_UBP, FALSE, "Must be either 'true' or 'false'",
                          Returns(DEFAULT_CONFIG[K_UBP]))

\* configParsers[key](value)
configParsers(key, value) ==
    CASE key = "OPENAI_KEY" -> parse_OPENAI_KEY(value)
      [] key = "locale" -> parse_locale(value)
      [] key = "generate" -> parse_generate(value)
      [] key = "type" -> parse_type(value)
      [] key = "proxy" -> parse_proxy(value)
      [] key = "model" -> parse_model(value)
      [] key = "timeout" -> parse_timeout(value)
      [] key = "max-length" -> parse_max_length(value)
      [] OTHER -> parse_use_branch_prefix(value)

\* One key of ~/.aicommits: absent, or present with the text after the "="
Absent == [has |-> FALSE, text |-> <<>>]
Line(s) == [has |-> TRUE, text |-> s]

\* ini.parse: the tokens true, false and null decode to the JavaScript values
iniDecode(entry) ==
    IF ~entry.has THEN Undefined
    ELSE IF entry.text = S_true THEN Bool(TRUE)
    ELSE IF entry.text = S_false THEN Bool(FALSE)
    ELSE IF entry.text = S_null THEN Null
    ELSE Str(entry.text)

\* the normalisation of use-branch-prefix inside readConfigFile
normalizeBranchPrefix(v) ==
    IF v # Undefined /\ trim(toLowerCase(String(v))) \in truthyTokens
    THEN Str(S_true) ELSE v

readConfigFile(f) ==
    [key \in KeySet |->
        IF key = K_UBP THEN normalizeBranchPrefix(iniDecode(f[key]))
        ELSE iniDecode(f[key])]

\* the override always first, without the special case of use-branch-prefix
effectiveValue_overrideFirst(key, cliConfig, fileConfig) ==
    Coalesce(cliConfig[key], fileConfig[key])

\* the persisted value first
effectiveValue_fileFirst(key, cliConfig, fileConfig) ==
    Coalesce(fileConfig[key], cliConfig[key])

\* the raw value getConfig hands to the key's parser
effectiveValue(key, cliConfig, fileConfig) ==
    IF key = K_UBP /\ fileConfig[key] = Str(S_true) THEN fileConfig[key]
    ELSE Coalesce(cliConfig[key], fileConfig[key])

\* what getConfig stores for a key whose parser threw, in suppressed mode
suppressedValue(key, parsedConfig) ==
    IF key \in DOMAIN DEFAULT_CONFIG
    THEN [parsedConfig EXCEPT ![key] = DEFAULT_CONFIG[key]]
    ELSE parsedConfig

EmptyConfig == [key \in KeySet |-> Undefined]

RECURSIVE getConfigLoop(_, _, _, _, _)
getConfigLoop(i, cliConfig, fileConfig, suppressErrors, parsedConfig) ==
    IF i > Len(ConfigKeys) THEN [ok |-> TRUE, cfg |-> parsedConfig, err |-> NoError]
    ELSE LET key == ConfigKeys[i]
             result == configParsers(key, effectiveValue(key, cliConfig, fileConfig))
         IN  IF result.ok
             THEN getConfigLoop(i + 1, cliConfig, fileConfig, suppressErrors,
                                [parsedConfig EXCEPT ![key] = result.val])
             ELSE IF suppressErrors
             THEN getConfigLoop(i + 1, cliConfig, fileConfig, suppressErrors,
                                suppressedValue(key, parsedConfig))
             ELSE [ok |-> FALSE, cfg |-> parsedConfig, err |-> result.err]

\* getConfig(cliConfig, suppressErrors) against the file f
getConfig(cliConfig, suppressErrors, f) ==
    getConfigLoop(1, cliConfig, readConfigFile(f), suppressErrors, EmptyConfig)

-----------------------------------------------------------------------------
(* utils/openai.ts: post-processing of the returned choices *)

RECURSIVE removeNewlines(_)
\* .replace(/[\n\r]/g, "")
removeNewlines(s) ==
    IF s = <<>> THEN <<>>
    ELSE IF Head(s) \in {"\n", "\r"} THEN removeNewlines(Tail(s))
    ELSE <<Head(s)>> \o removeNewlines(Tail(s))

\* .replace(/(\w)\.$/, "$1")
stripTrailingPeriod(s) ==
    IF Len(s) >= 2 /\ s[Len(s)] = "." /\ s[Len(s) - 1] \in WordChar
    THEN SubSeq(s, 1, Len(s) - 1) ELSE s

\* trims after the other two steps instead of before them
sanitizeMessage_trimLast(message) == trim(stripTrailingPeriod(removeNewlines(message)))

sanitizeMessage(message) == stripTrailingPeriod(removeNewlines(trim(message)))

RECURSIVE deduplicateMessages(_)
\* Array.from(new Set(array)): the first occurrence of each element, in order
deduplicateMessages(array) ==
    IF array = <<>> THEN <<>>
    ELSE LET init == deduplicateMessages(SubSeq(array, 1, Len(array) - 1))
             last == array[Len(array)]
         IN  IF last \in Range(init) THEN init ELSE Append(init, last)

\* .map(sanitizeMessage) and deduplicateMessages, on strings
sanitizeThenDeduplicate(raw) ==
    deduplicateMessages([i \in DOMAIN raw |-> sanitizeMessage(raw[i])])

\* choices: the message.content of each returned choice (a string, or undefined)
postProcess(choices) ==
    LET kept == SelectSeq(choices, Truthy)
    IN  deduplicateMessages([i \in DOMAIN kept |-> sanitizeMessage(kept[i].s)])

\* the error generateCommitMessage throws for a failed createChatCompletion;
\* e: [code, status, apiMessage] of the rejected request
generateError(e) ==
    IF e.code \in {"ENOTFOUND", "ETIMEDOUT"}
    THEN KnownError("", "Error connecting to OpenAI API. Check your internet connection.")
    ELSE IF e.status # 0
    THEN KnownError("", IF e.apiMessage # "" THEN e.apiMessage ELSE "OpenAI API Error: status - statusText")
    ELSE UnknownError(e.message)

-----------------------------------------------------------------------------
(* commands/aicommits.ts: the branch prefix *)

\* the last index j >= i - 1 with s[i..j] all in class
RECURSIVE runEnd(_, _, _)
runEnd(s, i, class) ==
    IF i <= Len(s) /\ s[i] \in class THEN runEnd(s, i + 1, class) ELSE i - 1

\* the match of /([A-Z]+-\d+)/i anchored at index i (<<>>: no match there)
ticketAt(s, i) ==
    LET j == runEnd(s, i, Letter)
        k == runEnd(s, j + 2, Digit)
    IN  IF j >= i /\ j + 1 <= Len(s) /\ s[j + 1] = "-" /\ k >= j + 2
        THEN SubSeq(s, i, k) ELSE <<>>

\* branchName.match(/([A-Z]+-\d+)/i): the leftmost match (<<>>: null)
ticketIdMatch(s) ==
    LET starts == {i \in DOMAIN s : ticketAt(s, i) # <<>>}
    IN  IF starts = {} THEN <<>>
        ELSE ticketAt(s, CHOOSE i \in starts : \A o \in starts : i <= o)

workflowPrefixes ==
    << <<"f","e","a","t","u","r","e","/">>, <<"f","i","x","/">>,
       <<"b","u","g","f","i","x","/">>, <<"h","o","t","f","i","x","/">>,
       <<"r","e","l","e","a","s","e","/">>, <<"c","h","o","r","e","/">> >>

\* .replace(/^(feature|fix|bugfix|hotfix|release|chore)\//, "")
removeWorkflowPrefix(s) ==
    LET hits == {i \in DOMAIN workflowPrefixes : startsWith(s, workflowPrefixes[i])}
    IN  IF hits = {} THEN s
        ELSE LET first == CHOOSE i \in hits : \A o \in hits : i <= o
             IN  SubSeq(s, Len(workflowPrefixes[first]) + 1, Len(s))

\* .replace(/[-_]/g, " ")
dashesToSpaces(s) == [i \in DOMAIN s |-> IF s[i] \in {"-", "_"} THEN " " ELSE s[i]]

RECURSIVE collapseSpaces(_)
\* .replace(/\s+/g, " ")
collapseSpaces(s) ==
    IF s = <<>> THEN <<>>
    ELSE IF Head(s) \in WhiteSpace
    THEN <<" ">> \o collapseSpaces(trimStart(s))
    ELSE <<Head(s)>> \o collapseSpaces(Tail(s))

cleanBranchName(s) == trim(collapseSpaces(dashesToSpaces(removeWorkflowPrefix(s))))

\* the derivation without the ticket check
branchPrefix_cleanupOnly(branchName) == cleanBranchName(branchName)

\* the prefix applyBranchPrefix derives from the branch name
branchPrefix(branchName) ==
    IF ticketIdMatch(branchName) # <<>> THEN toUpperCase(ticketIdMatch(branchName))
    ELSE cleanBranchName(branchName)

\* `${prefix}: ${message}`
withPrefix(prefix, message) == prefix \o <<":", " ">> \o message

\* getCurrentBranch: stdout.trim(), or a KnownError when git fails
getCurrentBranch(outcome, branch) ==
    IF outcome = "ok" THEN Returns(Str(trim(branch)))
    ELSE Throws(KnownError("", "Failed to get current branch"))

\* applyBranchPrefix that formats with an empty prefix when the query fails
applyBranchPrefix_emptyOnError(message, useBranchPrefix, query) ==
    IF ~useBranchPrefix THEN message
    ELSE IF query.ok THEN withPrefix(branchPrefix(query.val.s), message)
    ELSE withPrefix(<<>>, message)

\* applyBranchPrefix(message, useBranchPrefix); query: the result of getCurrentBranch
applyBranchPrefix(message, useBranchPrefix, query) ==
    IF ~useBranchPrefix THEN message
    ELSE IF query.ok THEN withPrefix(branchPrefix(query.val.s), message)
    ELSE message

-----------------------------------------------------------------------------
(* utils/git.ts *)

\* the paths of the modelled repository, in the order git lists them
Paths == <<"README.md", "dist/cli.js", "src/cli.ts", "yarn.lock">>

\* the default exclusion pathspecs
filesToExclude == {"package-lock.json", "pnpm-lock.yaml", "yarn.lock", "*.lock",
                   "dist/**", "build/**"}

\* git's pathspec matching, for the paths and patterns of this model
pathspecMatches(pattern, path) ==
    \/ pattern = path
    \/ pattern = "*.lock" /\ path = "yarn.lock"
    \/ pattern = "dist/**" /\ path = "dist/cli.js"

\* stdout lines of `git diff --cached ... <excludes>` over the staged set
diffCached(stagedSet, excludes) ==
    SelectSeq(Paths,
              LAMBDA p : p \in stagedSet /\ ~\E x \in excludes : pathspecMatches(x, p))

\* getStagedDiff without the early return on an empty file list
getStagedDiff_noEarlyReturn(stagedSet, excludeFiles, q1, q2) ==
    LET files == diffCached(stagedSet, filesToExclude \cup excludeFiles)
    IN  IF q1 # "ok"
        THEN [calls |-> <<"git diff --name-only">>,
              res |-> Throws(KnownError("", "Failed to get staged changes"))]
        ELSE [calls |-> <<"git diff --name-only", "git diff">>,
              res |-> [ok |-> TRUE, val |-> [files |-> files, diff |-> files],
                       err |-> NoError]]

\* getStagedDiff(excludeFiles): q1, q2 are the outcomes of the two git queries
\* (q2 = "none": the second query is not issued)
getStagedDiff(stagedSet, excludeFiles, q1, q2) ==
    LET files == diffCached(stagedSet, filesToExclude \cup excludeFiles)
    IN  IF q1 # "ok"
        THEN [calls |-> <<"git diff --name-only">>,
              res |-> Throws(KnownError("", "Failed to get staged changes"))]
        ELSE IF files = <<>>
        THEN [calls |-> <<"git diff --name-only">>, res |-> Returns(Undefined)]
        ELSE IF q2 # "ok"
        THEN [calls |-> <<"git diff --name-only", "git diff">>,
              res |-> Throws(KnownError("", "Failed to get staged changes"))]
        ELSE [calls |-> <<"git diff --name-only", "git diff">>,
              res |-> [ok |-> TRUE, val |-> [files |-> files, diff |-> files],
                       err |-> NoError]]

\* whether getStagedDiff issues its second query
needsFullDiff(stagedSet, excludeFiles) ==
    diffCached(stagedSet, filesToExclude \cup excludeFiles) # <<>>

-----------------------------------------------------------------------------
(* commands/aicommits.ts: the handler, one action per awaited step *)

NoStagedChanges ==
    KnownError("", "No staged changes found. Stage your changes manually, or automatically stage all changes with the --all flag.")
NoMessages == KnownError("", "No commit messages were generated. Try again.")

\* the cliConfig loadConfig builds from the options and process.env
loadConfig(o, e) ==
    [key \in KeySet |->
        CASE key = "OPENAI_KEY" -> Or(e.OPENAI_KEY, e.OPENAI_API_KEY)
          [] key = "proxy" ->
                Or(Or(Or(e.https_proxy, e.HTTPS_PROXY), e.http_proxy), e.HTTP_PROXY)
          [] key = "generate" ->
                IF o.generate = Undefined THEN Undefined ELSE Str(String(o.generate))
          [] key = "type" ->
                IF o.commitType = Undefined THEN Undefined ELSE Str(String(o.commitType))
          [] key = K_UBP ->
                IF o.useBranchPrefix = Undefined THEN Undefined
                ELSE Str(String(o.useBranchPrefix))
          [] OTHER -> Undefined]

\* the handler's override of config["use-branch-prefix"] after loadConfig
effectiveBranchPrefix(useBranchPrefix, cfg) ==
    IF Truthy(useBranchPrefix) \/ Truthy(cfg[K_UBP])
    THEN [cfg EXCEPT ![K_UBP] = Bool(TRUE)] ELSE cfg

\* createCommit called with the configured flag instead of false
commitUseBranchPrefix_flag(cfg) == Truthy(cfg[K_UBP])

\* the useBranchPrefix argument the handler passes to createCommit
commitUseBranchPrefix(cfg) == FALSE

\* selectCommitMessage without the isCancel check on the multiple choice
selectCommitMessage_noCancel(msgs, answer) ==
    IF Len(msgs) = 1
    THEN IF answer = 1 THEN Str(msgs[1]) ELSE Null
    ELSE IF answer = 0 THEN Str(<<"S","y","m","b","o","l">>) ELSE Str(msgs[answer])

\* selectCommitMessage(messages); answer: what the prompt returned
\* (0: the cancel symbol; -1: confirm's false; i >= 1: option i, or confirm's true)
selectCommitMessage(msgs, answer) ==
    IF Len(msgs) = 1
    THEN IF answer = 1 THEN Str(msgs[1]) ELSE Null
    ELSE IF answer = 0 THEN Null ELSE Str(msgs[answer])

\* the answers the prompt of selectCommitMessage can give
Answers(msgs) == IF Len(msgs) = 1 THEN {-1, 0, 1} ELSE {0} \cup DOMAIN msgs

Event(op, arg) == [op |-> op, arg |-> arg]

\* how the log names a prompt answer
AnswerName(answer) ==
    IF answer = 0 THEN <<"cancel">>
    ELSE IF answer = -1 THEN <<"no">> ELSE NumberToString(answer)

NoOut == [outro |-> "", copied |-> FALSE, stack |-> FALSE, exit |-> -1, err |-> NoError]

\* handleCliError prints the stack trace and the version and report footer
\* for an Error that is not a KnownError
handleCliError(error) == error.kind # "KnownError"

\* the catch block of the handler: outro, handleCliError, process.exit(1)
Fail(err) ==
    /\ pc' = "Failed"
    /\ out' = [outro |-> err.msg, copied |-> FALSE, stack |-> handleCliError(err),
               exit |-> 1, err |-> err]

-----------------------------------------------------------------------------
(* Bounds and input sets of the run *)

\* the most choices one API response carries
MaxChoices == 2

S_key == <<"s","k","-","x">>
S_fix == <<"F","i","x">>

\* message.content of a returned choice
Contents == {Str(<<"F","i","x",".">>), Str(<<"F","i","x","\n">>), Str(<<"A","d","d">>),
             Str(<<" ">>), Undefined}

Branches == {<<"p","r","o","j","-","7","-","x">>, <<"f","i","x","/","m","y","-","x">>, <<>>}

CliGenerate == {Undefined, Num(0), Num(2)}

RunFiles ==
    {[key \in KeySet |->
        CASE key = K_KEY -> k
          [] key = "generate" -> g
          [] key = K_UBP -> u
          [] OTHER -> Absent] :
      k \in {Absent, Line(S_key)},
      g \in {Absent, Line(<<"3">>)},
      u \in {Absent, Line(S_true), Line(<<"O","n">>), Line(<<"m","a","y","b","e">>)}}

NoEnv == [OPENAI_KEY |-> Undefined, OPENAI_API_KEY |-> Undefined,
          https_proxy |-> Undefined, HTTPS_PROXY |-> Undefined,
          http_proxy |-> Undefined, HTTP_PROXY |-> Undefined]

ApiErrors ==
    {[code |-> "ENOTFOUND", status |-> 0, apiMessage |-> "", message |-> "getaddrinfo ENOTFOUND"],
     [code |-> "ETIMEDOUT", status |-> 0, apiMessage |-> "", message |-> "connect ETIMEDOUT"],
     [code |-> "ECONNABORTED", status |-> 0, apiMessage |-> "", message |-> "timeout of N ms exceeded"],
     [code |-> "ERR_BAD_REQUEST", status |-> 401, apiMessage |-> "Incorrect API key provided", message |-> "Request failed with status code 401"],
     [code |-> "ERR_BAD_RESPONSE", status |-> 500, apiMessage |-> "", message |-> "Request failed with status code 500"]}

\* the responses the API can give to a request for n completions
RECURSIVE SeqsUpTo(_, _)
SeqsUpTo(S, n) ==
    IF n = 0 THEN {<<>>}
    ELSE LET shorter == SeqsUpTo(S, n - 1)
         IN  shorter \cup {Append(q, x) : q \in {r \in shorter : Len(r) = n - 1}, x \in S}

Min(a, b) == IF a <= b THEN a ELSE b

Responses(n) == SeqsUpTo(Contents, Min(n, MaxChoices))

NoStaged == [files |-> <<>>, diff |-> <<>>]
NoFinal == [message |-> <<>>, clipboardSuccess |-> FALSE]

Init ==
    /\ pc = "RepoCheck"
    /\ opts \in [generate : CliGenerate, excludeFiles : {{}, {"README.md"}},
                 stageAll : BOOLEAN, commitType : {Undefined},
                 useBranchPrefix : {Bool(FALSE), Bool(TRUE)}]
    /\ env = NoEnv
    /\ file \in RunFiles
    /\ git \in [staged : {{}, {"yarn.lock"}, {"README.md"}, {"src/cli.ts", "yarn.lock"}},
                modified : {{}, {"src/cli.ts"}},
                branch : Branches]
    /\ staged = NoStaged
    /\ config = EmptyConfig
    /\ candidates = <<>>
    /\ messages = <<>>
    /\ cursor = 0
    /\ selected = Null
    /\ final = NoFinal
    /\ log = <<>>
    /\ out = NoOut

\* await assertGitRepo()
RepoCheck ==
    /\ pc = "RepoCheck"
    /\ log' = Append(log, Event("git rev-parse", <<>>))
    /\ \E outcome \in {"ok", "failed", "not found", "error"} :
        CASE outcome = "ok" ->
                /\ pc' = IF opts.stageAll THEN "StageAll" ELSE "CollectChanges"
                /\ out' = out
          [] outcome = "failed" ->
                Fail(KnownError("", "The current directory must be a Git repository!"))
          [] outcome = "not found" ->
                Fail(KnownError("", "Git is not installed or not available in PATH"))
          [] OTHER -> Fail(UnknownError("Command failed: git rev-parse"))
    /\ UNCHANGED <<opts, env, file, git, staged, config, candidates, messages, cursor, selected, final>>

\* await stageAllChanges(): git add --update
StageAll ==
    /\ pc = "StageAll"
    /\ log' = Append(log, Event("git add --update", <<>>))
    /\ \E outcome \in {"ok", "error"} :
        IF outcome = "ok"
        THEN /\ git' = [git EXCEPT !.staged = git.staged \cup git.modified, !.modified = {}]
             /\ pc' = "CollectChanges"
             /\ out' = out
        ELSE /\ Fail(UnknownError("Command failed: git add --update"))
             /\ git' = git
    /\ UNCHANGED <<opts, env, file, staged, config, candidates, messages, cursor, selected, final>>

\* await getStagedChanges(excludeFiles)
CollectChanges ==
    /\ pc = "CollectChanges"
    /\ \E q1 \in {"ok", "error"} :
       \E q2 \in (IF q1 = "ok" /\ needsFullDiff(git.staged, opts.excludeFiles)
                  THEN {"ok", "error"} ELSE {"none"}) :
        LET r == getStagedDiff(git.staged, opts.excludeFiles, q1, q2)
        IN  /\ log' = log \o [i \in DOMAIN r.calls |-> Event(r.calls[i], <<>>)]
            /\ IF ~r.res.ok THEN Fail(r.res.err) /\ staged' = staged
               ELSE IF r.res.val = Undefined THEN Fail(NoStagedChanges) /\ staged' = staged
               ELSE /\ staged' = r.res.val
                    /\ pc' = "LoadConfig"
                    /\ out' = out
    /\ UNCHANGED <<opts, env, file, git, config, candidates, messages, cursor, selected, final>>

\* await loadConfig(...), then the override of config["use-branch-prefix"]
LoadConfig ==
    /\ pc = "LoadConfig"
    /\ log' = Append(log, Event("getConfig", <<>>))
    /\ LET r == getConfig(loadConfig(opts, env), FALSE, file)
       IN  IF r.ok
           THEN /\ config' = effectiveBranchPrefix(opts.useBranchPrefix, r.cfg)
                /\ pc' = "Generate"
                /\ out' = out
           ELSE Fail(r.err) /\ config' = config
    /\ UNCHANGED <<opts, env, file, git, staged, candidates, messages, cursor, selected, final>>

\* await generateMessages(config, staged.diff)
Generate ==
    /\ pc = "Generate"
    /\ \/ \E choices \in Responses(config["generate"].n) :
            LET msgs == postProcess(choices)
            IN  /\ log' = Append(log, Event("createChatCompletion", <<"ok">>))
                /\ IF msgs = <<>>
                   THEN Fail(NoMessages) /\ UNCHANGED <<candidates, messages, cursor>>
                   ELSE /\ candidates' = msgs
                        /\ messages' = msgs
                        /\ cursor' = 1
                        /\ pc' = IF Truthy(config[K_UBP]) THEN "ApplyPrefix" ELSE "Select"
                        /\ out' = out
       \/ \E e \in ApiErrors :
            /\ log' = Append(log, Event("createChatCompletion", <<e.code>>))
            /\ Fail(generateError(e)) /\ UNCHANGED <<candidates, messages, cursor>>
    /\ UNCHANGED <<opts, env, file, git, staged, config, selected, final>>

\* one iteration of the loop that prefixes every candidate
ApplyPrefix ==
    /\ pc = "ApplyPrefix"
    /\ \E outcome \in {"ok", "error"} :
        /\ log' = Append(log, Event("git branch --show-current", <<outcome>>))
        /\ messages' = [messages EXCEPT ![cursor] =
             applyBranchPrefix(messages[cursor], TRUE, getCurrentBranch(outcome, git.branch))]
    /\ cursor' = cursor + 1
    /\ pc' = IF cursor = Len(messages) THEN "Select" ELSE "ApplyPrefix"
    /\ UNCHANGED <<opts, env, file, git, staged, config, candidates, selected, final, out>>

\* await selectCommitMessage(messages), then the cancellation check
Select ==
    /\ pc = "Select"
    /\ \E answer \in Answers(messages) :
        LET selectedMessage == selectCommitMessage(messages, answer)
        IN  /\ log' = Append(log, Event("prompt", AnswerName(answer)))
            /\ selected' = selectedMessage
            /\ IF ~Truthy(selectedMessage)
               THEN /\ pc' = "Done"
                    /\ out' = [out EXCEPT !.outro = "Commit cancelled", !.exit = 0]
               ELSE /\ pc' = "CreateCommit"
                    /\ out' = out
    /\ UNCHANGED <<opts, env, file, git, staged, config, candidates, messages, cursor, final>>

\* createCommit up to the clipboard write
CreateCommit ==
    /\ pc = "CreateCommit"
    /\ \E query \in (IF commitUseBranchPrefix(config) THEN {"ok", "error"} ELSE {"none"}) :
       \E copy \in {"ok", "error"} :
        LET finalMessage ==
                applyBranchPrefix(selected.s, commitUseBranchPrefix(config),
                                  getCurrentBranch(query, git.branch))
        IN  /\ final' = [message |-> finalMessage, clipboardSuccess |-> copy = "ok"]
            /\ log' = log
                 \o (IF query = "none" THEN <<>>
                     ELSE <<Event("git branch --show-current", <<query>>)>>)
                 \o <<Event("clipboard write", finalMessage)>>
    /\ pc' = "Commit"
    /\ UNCHANGED <<opts, env, file, git, staged, config, candidates, messages, cursor, selected, out>>

\* a commit step that runs git commit a second time when the first one fails
Commit_retry ==
    /\ pc = "Commit"
    /\ log' = Append(log, Event("git commit", final.message))
    /\ \E outcome \in {"ok", "error"} :
        IF outcome = "ok"
        THEN /\ pc' = "Done"
             /\ out' = [out EXCEPT !.outro = "Successfully committed!",
                                   !.copied = final.clipboardSuccess, !.exit = 0]
        ELSE IF \A i \in DOMAIN log : log[i].op # "git commit"
        THEN pc' = "Commit" /\ out' = out
        ELSE Fail(UnknownError("Command failed: git commit"))
    /\ UNCHANGED <<opts, env, file, git, staged, config, candidates, messages, cursor, selected, final>>

\* git commit -n -m finalMessage ...rawArgv, then the outro
Commit ==
    /\ pc = "Commit"
    /\ log' = Append(log, Event("git commit", final.message))
    /\ \E outcome \in {"ok", "error"} :
        IF outcome = "ok"
        THEN /\ pc' = "Done"
             /\ out' = [out EXCEPT !.outro = "Successfully committed!",
                                   !.copied = final.clipboardSuccess, !.exit = 0]
        ELSE Fail(UnknownError("Command failed: git commit"))
    /\ UNCHANGED <<opts, env, file, git, staged, config, candidates, messages, cursor, selected, final>>

Next ==
    \/ RepoCheck
    \/ StageAll
    \/ CollectChanges
    \/ LoadConfig
    \/ Generate
    \/ ApplyPrefix
    \/ Select
    \/ CreateCommit
    \/ Commit

Spec == Init /\ [][Next]_vars

-----------------------------------------------------------------------------
(* getConfig on its own: any override record, both modes *)

\* the most configuration keys that have an override or a persisted value
MaxKeys == 2

S_conventional == <<"c","o","n","v","e","n","t","i","o","n","a","l">>

\* override values (cliConfig entries) tried for each key
CliValues(key) ==
    CASE key = K_KEY -> {Str(S_key), Str(<<"p","k","-","x">>)}
      [] key = "locale" -> {Str(<<"f","r">>), Str(<<"e","1">>)}
      [] key = "generate" -> {Str(<<"3">>), Str(<<"0">>), Str(<<"6">>), Str(<<"0","5">>),
                              Str(<<"1","0">>), Str(<<"N","a","N">>)}
      [] key = "type" -> {Str(S_conventional), Str(<<>>)}
      [] key = "proxy" -> {Str(<<"h","t","t","p",":","/","/","p">>)}
      [] key = "model" -> {Str(<<"g","p","t","-","4">>)}
      [] key = "timeout" -> {Str(<<"4","9","9">>)}
      [] key = "max-length" -> {Str(<<"2","0">>)}
      [] OTHER -> {Str(S_true), Str(S_false), Str(<<"m","a","y","b","e">>)}

\* persisted texts tried for each key
FileValues(key) ==
    CASE key = K_KEY -> {Line(<<"s","k","-","y">>), Line(S_true)}
      [] key = "locale" -> {Line(<<"d","e">>)}
      [] key = "generate" -> {Line(<<"2">>), Line(<<"x">>)}
      [] key = "type" -> {Line(S_conventional), Line(<<"o","t","h","e","r">>)}
      [] key = "proxy" -> {Line(<<"f","t","p",":","/","/","p">>)}
      [] key = "model" -> {Line(<<"m">>)}
      [] key = "timeout" -> {Line(<<"5","0","0">>)}
      [] key = "max-length" -> {Line(<<"1","9">>)}
      [] OTHER -> {Line(S_true), Line(S_false), Line(<<"Y","e","s">>),
                   Line(<<"m","a","y","b","e">>)}

EmptyFile == [key \in KeySet |-> Absent]

\* the inputs in which at most n keys have an override or a persisted value
RECURSIVE ConfigInputs(_)
ConfigInputs(n) ==
    IF n = 0 THEN {[cliConfig |-> EmptyConfig, file |-> EmptyFile]}
    ELSE LET fewer == ConfigInputs(n - 1)
         IN  fewer \cup UNION {
                 {[cliConfig |-> [p.cliConfig EXCEPT ![key] = c],
                   file |-> [p.file EXCEPT ![key] = f]] :
                     p \in fewer,
                     c \in CliValues(key) \cup {Undefined},
                     f \in FileValues(key) \cup {Absent}} : key \in KeySet}

Unresolved == [ok |-> FALSE, cfg |-> EmptyConfig, err |-> NoError]

InitConfig ==
    /\ pc = "getConfig"
    /\ \E in \in ConfigInputs(MaxKeys) : \E suppressErrors \in BOOLEAN :
        /\ opts = [cliConfig |-> in.cliConfig, suppressErrors |-> suppressErrors]
        /\ file = in.file
    /\ env = NoEnv
    /\ git = [staged |-> {}, modified |-> {}, branch |-> <<>>]
    /\ staged = NoStaged
    /\ config = Unresolved
    /\ candidates = <<>>
    /\ messages = <<>>
    /\ cursor = 0
    /\ selected = Null
    /\ final = NoFinal
    /\ log = <<>>
    /\ out = NoOut

\* await getConfig(cliConfig, suppressErrors)
ResolveConfig ==
    /\ pc = "getConfig"
    /\ config' = getConfig(opts.cliConfig, opts.suppressErrors, file)
    /\ pc' = "resolved"
    /\ UNCHANGED <<opts, env, file, git, staged, candidates, messages, cursor, selected, final, log, out>>

NextConfig == ResolveConfig

SpecConfig == InitConfig /\ [][NextConfig]_vars

-----------------------------------------------------------------------------
(* Properties of the run *)

\* the positions of the log entries of one operation
At(op) == {i \in DOMAIN log : log[i].op = op}
Did(op) == At(op) # {}

\* the outcomes of the current-branch queries, in order
BranchQueries ==
    SelectSeq(log, LAMBDA e : e.op = "git branch --show-current")

\* the prefix of the run's branch
RunPrefix == branchPrefix(trim(git.branch))

\* use-branch-prefix is persisted with one of the tokens that mean true
PersistedTrue ==
    file[K_UBP].has /\ trim(toLowerCase(file[K_UBP].text)) \in truthyTokens

AfterConfig == pc \in {"Generate", "ApplyPrefix", "Select", "CreateCommit", "Commit", "Done"}

\* C1: every message passed to git commit -m is one sanitized candidate, or
\* that candidate behind exactly one "prefix: "; it is the bare candidate when
\* the prefix is disabled, and never carries the prefix twice.
C1_PrefixAtMostOnce ==
    \A i \in At("git commit") :
        /\ \E j \in DOMAIN candidates :
            \/ log[i].arg = candidates[j]
            \/ /\ Truthy(config[K_UBP])
               /\ log[i].arg = withPrefix(RunPrefix, candidates[j])
        /\ \A j \in DOMAIN candidates :
            log[i].arg # withPrefix(RunPrefix, withPrefix(RunPrefix, candidates[j]))

\* C1 witness: a commit of a prefixed candidate when both the flag and the
\* persisted value enable the prefix
C1_Witness ==
    /\ pc = "Done"
    /\ opts.useBranchPrefix = Bool(TRUE)
    /\ PersistedTrue
    /\ RunPrefix # <<>>
    /\ \E i \in At("git commit") : \E j \in DOMAIN candidates :
        log[i].arg = withPrefix(RunPrefix, candidates[j])

\* C2: a cancel signal at the Select step ends the run in Done with the
\* "Commit cancelled" outcome, with no git commit, no clipboard write, no
\* error output and no exit status 1.
C2_CancelEndsCleanly ==
    (\E i \in At("prompt") : log[i].arg = <<"cancel">>) =>
        /\ pc = "Done"
        /\ out.outro = "Commit cancelled"
        /\ out.exit = 0
        /\ out.err = NoError
        /\ ~out.stack
        /\ ~Did("git commit")
        /\ ~Did("clipboard write")

\* C2 witness: the choice among several candidates was cancelled
C2_Witness ==
    /\ Len(messages) >= 2
    /\ \E i \in At("prompt") : log[i].arg = <<"cancel">>
    /\ pc = "Done"

\* every staged path is matched by a default or user exclusion
AllStagedExcluded ==
    \A p \in git.staged :
        \E x \in filesToExclude \cup opts.excludeFiles : pathspecMatches(x, p)

\* C3: when the name-only query succeeds with an empty list, the full diff is
\* not queried and the run fails with the stage-your-changes message, without
\* loading the configuration, calling the API or committing.
C3_NoStagedChangesFails ==
    (/\ Did("git diff --name-only")
     /\ AllStagedExcluded
     /\ out.err.msg # "Failed to get staged changes") =>
        /\ pc = "Failed"
        /\ out.err = NoStagedChanges
        /\ out.outro = NoStagedChanges.msg
        /\ out.exit = 1
        /\ staged = NoStaged
        /\ config = EmptyConfig
        /\ ~Did("git diff")
        /\ ~Did("getConfig")
        /\ ~Did("createChatCompletion")
        /\ ~Did("git commit")

\* C3 witness: files are staged, every one is excluded, and the run failed
C3_Witness ==
    /\ pc = "Failed"
    /\ out.err = NoStagedChanges
    /\ "README.md" \in git.staged
    /\ AllStagedExcluded

\* C5 as stated: the effective flag is the OR of the CLI flag and the persisted
\* value, and when it is true every option presented at Select is prefixed;
\* when it is false none is.
C5_EveryOptionPrefixed ==
    /\ AfterConfig =>
        (Truthy(config[K_UBP]) <=> (opts.useBranchPrefix = Bool(TRUE) \/ PersistedTrue))
    /\ pc = "Select" =>
        IF Truthy(config[K_UBP])
        THEN \A i \in DOMAIN messages : messages[i] = withPrefix(RunPrefix, candidates[i])
        ELSE messages = candidates

\* C5 amended: the effective flag is that OR; when it is true the branch is
\* queried once per candidate before Select and each candidate whose query
\* succeeded is presented prefixed, one whose query failed unprefixed; when it
\* is false the candidates are presented as generated.
C5_PrefixedWhereBranchKnown ==
    /\ AfterConfig =>
        (Truthy(config[K_UBP]) <=> (opts.useBranchPrefix = Bool(TRUE) \/ PersistedTrue))
    /\ pc = "Select" =>
        IF Truthy(config[K_UBP])
        THEN /\ Len(BranchQueries) = Len(candidates)
             /\ Len(messages) = Len(candidates)
             /\ \A i \in DOMAIN messages :
                 messages[i] = IF BranchQueries[i].arg = <<"ok">>
                               THEN withPrefix(RunPrefix, candidates[i])
                               ELSE candidates[i]
        ELSE messages = candidates /\ BranchQueries = <<>>

\* C5 witness: the flag is off, the persisted value is on, and two prefixed
\* options are presented
C5_Witness ==
    /\ pc = "Select"
    /\ opts.useBranchPrefix = Bool(FALSE)
    /\ PersistedTrue
    /\ Len(messages) = 2
    /\ \A i \in DOMAIN messages : messages[i] = withPrefix(RunPrefix, candidates[i])

\* C10: a failed branch query leaves that message unprefixed and never fails
\* the run; after a failed clipboard copy git commit is still invoked with the
\* final message, and a successful commit ends the run as committed without
\* the copied-to-clipboard text.
C10_BestEffortSideEffects ==
    /\ \A k \in DOMAIN BranchQueries :
        BranchQueries[k].arg = <<"error">> =>
            /\ messages[k] = candidates[k]
            /\ pc \in {"ApplyPrefix", "Select", "CreateCommit", "Commit", "Done", "Failed"}
            /\ pc = "Failed" => out.err = UnknownError("Command failed: git commit")
    /\ (Did("clipboard write") /\ ~final.clipboardSuccess) =>
        \/ pc = "Commit"
        \/ /\ \E i \in At("git commit") : log[i].arg = final.message
           /\ \/ pc = "Done" /\ out.outro = "Successfully committed!" /\ ~out.copied
                 /\ out.exit = 0
              \/ pc = "Failed" /\ out.err = UnknownError("Command failed: git commit")

\* C10 witness: the branch query and the clipboard copy both failed and the
\* run ended committed
C10_Witness ==
    /\ pc = "Done"
    /\ out.outro = "Successfully committed!"
    /\ ~final.clipboardSuccess
    /\ \E k \in DOMAIN BranchQueries : BranchQueries[k].arg = <<"error">>

-----------------------------------------------------------------------------
(* Properties of getConfig *)

Resolved == pc = "resolved"
Strict == ~opts.suppressErrors

Supplied(key) == opts.cliConfig[key] # Undefined
Persisted(key) == iniDecode(file[key])

\* the raw value of a key by the precedence override, persisted value, default
ByPrecedence(key) == IF Supplied(key) THEN opts.cliConfig[key] ELSE Persisted(key)

\* the same, except that a persisted true of use-branch-prefix comes first
ByPrecedenceButPrefix(key) ==
    IF key = K_UBP /\ PersistedTrue THEN Str(S_true) ELSE ByPrecedence(key)

\* the resolved configuration is what validating raw[key] of every key gives
ValidatesEach(raw) ==
    /\ \A key \in KeySet :
        LET r == configParsers(key, raw[key])
        IN  /\ (config.ok /\ r.ok) => config.cfg[key] = r.val
            /\ (config.ok /\ Strict) => r.ok
            /\ (config.ok /\ ~Supplied(key) /\ ~file[key].has
                  /\ key \in DOMAIN DEFAULT_CONFIG) => config.cfg[key] = DEFAULT_CONFIG[key]
    /\ ~config.ok =>
        \E key \in KeySet :
            LET r == configParsers(key, raw[key]) IN ~r.ok /\ config.err = r.err

\* C4 as stated: every key is validated on the override if supplied, else the
\* persisted value, else the default; a supplied override always wins.
C4_OverrideAlwaysWins ==
    Resolved => ValidatesEach([key \in KeySet |-> ByPrecedence(key)])

\* C4 amended: that precedence holds for every key except use-branch-prefix,
\* where a persisted value that means true wins over a supplied override.
C4_PrecedenceButPrefix ==
    Resolved => ValidatesEach([key \in KeySet |-> ByPrecedenceButPrefix(key)])

\* C4 witness: an override and a different persisted value of generate, and
\* the override is the resolved value
C4_Witness ==
    /\ Resolved /\ config.ok
    /\ opts.cliConfig["generate"] = Str(<<"3">>)
    /\ file["generate"] = Line(<<"2">>)
    /\ config.cfg["generate"] = Num(3)

\* the raw API key is missing, empty, or does not start with "sk-"
InvalidApiKey ==
    LET raw == ByPrecedence(K_KEY)
    IN  ~(raw.t = "str" /\ startsWith(raw.s, <<"s","k","-">>))

\* C6 as stated: a missing or invalid API key fails resolution in strict and
\* in suppressed mode, and no configuration is returned without a valid key.
C6_KeyFailsInBothModes ==
    Resolved =>
        /\ InvalidApiKey => ~config.ok
        /\ config.ok =>
            config.cfg[K_KEY].t = "str" /\ startsWith(config.cfg[K_KEY].s, <<"s","k","-">>)

\* C6 amended: in strict mode a missing or invalid API key fails resolution
\* and every returned configuration holds a valid key; in suppressed mode
\* resolution does not fail and the returned configuration has no OPENAI_KEY.
C6_KeyFailsInStrictMode ==
    Resolved =>
        IF Strict
        THEN /\ InvalidApiKey => ~config.ok /\ config.cfg = EmptyConfig
             /\ config.ok =>
                 /\ config.cfg[K_KEY].t = "str"
                 /\ startsWith(config.cfg[K_KEY].s, <<"s","k","-">>)
        ELSE /\ config.ok
             /\ config.cfg[K_KEY] = IF InvalidApiKey THEN Undefined ELSE ByPrecedence(K_KEY)

\* C6 witness: suppressed resolution of an invalid key returns a configuration
\* without it
C6_Witness ==
    /\ Resolved /\ ~Strict /\ config.ok
    /\ opts.cliConfig[K_KEY] = Str(<<"p","k","-","x">>)
    /\ config.cfg[K_KEY] = Undefined

\* the keys whose effective raw value fails its validator
FailingKeys ==
    {key \in KeySet :
        ~configParsers(key, effectiveValue(key, opts.cliConfig, readConfigFile(file))).ok}

DocumentedDefault(key) ==
    IF key \in DOMAIN DEFAULT_CONFIG THEN DEFAULT_CONFIG[key] ELSE Undefined

\* C7: in strict mode a failing key aborts resolution with a user-facing error
\* that names an offending key; in suppressed mode a failing key never aborts
\* and resolves to its documented default.
C7_StrictNamesKeySuppressedDefaults ==
    Resolved =>
        IF Strict
        THEN FailingKeys # {} =>
                /\ ~config.ok
                /\ config.err.kind = "KnownError"
                /\ config.err.prop \in FailingKeys
        ELSE /\ config.ok
             /\ \A key \in FailingKeys : config.cfg[key] = DocumentedDefault(key)

\* the raw generate count, when it is a string
GenerateRaw == ByPrecedence("generate")
GenerateFirstToFail ==
    /\ configParsers(K_KEY, ByPrecedence(K_KEY)).ok
    /\ configParsers("locale", ByPrecedence("locale")).ok

\* C8: in strict mode a raw count denoting an integer in 1..5 resolves to that
\* integer; "0", an integer above 5 or a non-numeric string fails with an error
\* naming generate (the keys validated before it being valid); an absent count
\* resolves to 1.
C8_GenerateCount ==
    (Resolved /\ Strict) =>
        /\ (GenerateRaw.t = "str" /\ GenerateRaw.s # <<>>) =>
            IF IsDigits(GenerateRaw.s) /\ Number(GenerateRaw.s) \in 1..5
            THEN /\ config.err.prop # "generate"
                 /\ config.ok => config.cfg["generate"] = Num(Number(GenerateRaw.s))
            ELSE /\ ~config.ok
                 /\ GenerateFirstToFail =>
                     config.err.kind = "KnownError" /\ config.err.prop = "generate"
        /\ (GenerateRaw = Undefined /\ config.ok) => config.cfg["generate"] = Num(1)

\* C8 witness: the count "05" resolves to 5
C8_Witness ==
    /\ Resolved /\ Strict /\ config.ok
    /\ GenerateRaw = Str(<<"0","5">>)
    /\ config.cfg["generate"] = Num(5)

\* a rejected count: "6" with a valid key fails naming generate
C8_WitnessRejected ==
    /\ Resolved /\ Strict /\ ~config.ok
    /\ GenerateRaw = Str(<<"6">>)
    /\ config.err = KnownError("generate", "Must be less or equal to 5")

-----------------------------------------------------------------------------
(* applyBranchPrefix on its own: any branch name *)

\* the longest branch name after the workflow prefix
MaxBranchLen == 4

BranchChars == {"a", "B", "7", "-", "_", "/"}

BranchHeads == {<<>>, <<"f","i","x","/">>, <<"b","u","g","f","i","x","/">>,
                <<"f","e","a","t","u","r","e","/">>, <<"F","i","x","/">>}

BranchNames == {h \o t : h \in BranchHeads, t \in SeqsUpTo(BranchChars, MaxBranchLen)}

InitPrefix ==
    /\ pc = "applyBranchPrefix"
    /\ git \in [staged : {{}}, modified : {{}}, branch : BranchNames]
    /\ opts = [generate |-> Undefined, excludeFiles |-> {}, stageAll |-> FALSE,
               commitType |-> Undefined, useBranchPrefix |-> Bool(TRUE)]
    /\ env = NoEnv
    /\ file = EmptyFile
    /\ staged = NoStaged
    /\ config = EmptyConfig
    /\ candidates = <<S_fix>>
    /\ messages = <<S_fix>>
    /\ cursor = 1
    /\ selected = Null
    /\ final = NoFinal
    /\ log = <<>>
    /\ out = NoOut

\* await applyBranchPrefix(msg, true) with a branch query that succeeds
PrefixOne ==
    /\ pc = "applyBranchPrefix"
    /\ log' = Append(log, Event("git branch --show-current", <<"ok">>))
    /\ messages' = [messages EXCEPT ![cursor] =
         applyBranchPrefix(messages[cursor], TRUE, getCurrentBranch("ok", git.branch))]
    /\ pc' = "prefixed"
    /\ UNCHANGED <<opts, env, file, git, staged, config, candidates, cursor, selected,
                   final, out>>

NextPrefix == PrefixOne

SpecPrefix == InitPrefix /\ [][NextPrefix]_vars

\* the prefix in front of ": candidate" in the prefixed message
AppliedPrefix == SubSeq(messages[1], 1, Len(messages[1]) - Len(candidates[1]) - 2)

\* the occurrences <<i, j, k>> of letters (i..j), a hyphen, digits (j+2..k)
TicketSpans(b) ==
    {span \in (DOMAIN b) \X (DOMAIN b) \X (DOMAIN b) :
        /\ span[1] <= span[2] /\ span[2] + 2 <= span[3]
        /\ \A x \in span[1]..span[2] : b[x] \in Letter
        /\ b[span[2] + 1] = "-"
        /\ \A x \in (span[2] + 2)..span[3] : b[x] \in Digit}

\* the first occurrence, as long as it can be
FirstTicket(b) ==
    LET span == CHOOSE t \in TicketSpans(b) :
                    \A o \in TicketSpans(b) :
                        t[1] < o[1] \/ (t[1] = o[1] /\ t[3] >= o[3])
    IN  SubSeq(b, span[1], span[3])

WorkflowWords ==
    {<<"f","e","a","t","u","r","e">>, <<"f","i","x">>, <<"b","u","g","f","i","x">>,
     <<"h","o","t","f","i","x">>, <<"r","e","l","e","a","s","e">>, <<"c","h","o","r","e">>}

\* b without a leading "word/" of the workflow words
WithoutWorkflow(b) ==
    IF \E w \in WorkflowWords : startsWith(b, Append(w, "/"))
    THEN LET w == CHOOSE w \in WorkflowWords : startsWith(b, Append(w, "/"))
         IN  SubSeq(b, Len(w) + 2, Len(b))
    ELSE b

\* the non-empty pieces of s between dashes and underscores
RECURSIVE WordsOf(_, _)
WordsOf(s, word) ==
    IF s = <<>> THEN (IF word = <<>> THEN <<>> ELSE <<word>>)
    ELSE IF Head(s) \in {"-", "_"}
    THEN (IF word = <<>> THEN <<>> ELSE <<word>>) \o WordsOf(Tail(s), <<>>)
    ELSE WordsOf(Tail(s), Append(word, Head(s)))

RECURSIVE JoinWithSpaces(_)
JoinWithSpaces(words) ==
    IF words = <<>> THEN <<>>
    ELSE IF Len(words) = 1 THEN words[1]
    ELSE words[1] \o <<" ">> \o JoinWithSpaces(Tail(words))

\* C9: the prefix is the first letters-hyphen-digits occurrence of the branch
\* name upper-cased when there is one, and otherwise the branch name without
\* its leading workflow prefix, its dashes and underscores turned into single
\* spaces, trimmed.
C9_TicketBeforeCleanup ==
    pc = "prefixed" =>
        /\ messages[1] = AppliedPrefix \o <<":", " ">> \o candidates[1]
        /\ AppliedPrefix =
            IF TicketSpans(git.branch) # {}
            THEN toUpperCase(FirstTicket(git.branch))
            ELSE JoinWithSpaces(WordsOf(WithoutWorkflow(git.branch), <<>>))

\* C9 witness: a ticket after a workflow prefix gives the upper-cased ticket
C9_Witness ==
    /\ pc = "prefixed"
    /\ git.branch = <<"f","i","x","/","a","B","-","7">>
    /\ AppliedPrefix = <<"A","B","-","7">>

\* a branch without a ticket gives the cleaned name
C9_WitnessCleanup ==
    /\ pc = "prefixed"
    /\ git.branch = <<"f","e","a","t","u","r","e","/","a","-","_","B">>
    /\ AppliedPrefix = <<"a"," ","B">>

-----------------------------------------------------------------------------
(* Failed generation *)

\* the run failed at the remote completion call
GenerationFailed ==
    pc = "Failed" /\ log # <<>> /\ log[Len(log)].op = "createChatCompletion"

\* what the log records of the completion call: "ok" or the code of its error
GenerationOutcome == log[Len(log)].arg[1]

\* the rejected request behind an error code
ErrorOf(code) == CHOOSE e \in ApiErrors : e.code = code

\* DNS and timeout class failures; ECONNABORTED is the request exceeding the
\* configured timeout
ConnectivityCodes == {"ENOTFOUND", "ETIMEDOUT", "ECONNABORTED"}

\* C11: a failed generation is reported as one of three conditions: a
\* connectivity failure (DNS or timeout class, the configured timeout included)
\* as the check-your-internet-connection error, a failure with an API status
\* as the payload's message or else the generic status message, and a response
\* without usable candidates as the no-messages error; a timeout never reads
\* as the invalid-API-key failure.
C11_FailedGenerationConditions ==
    GenerationFailed =>
        /\ GenerationOutcome = "ok" => out.err = NoMessages
        /\ GenerationOutcome \in ConnectivityCodes =>
            out.err = KnownError("", "Error connecting to OpenAI API. Check your internet connection.")
        /\ (GenerationOutcome \notin ConnectivityCodes \cup {"ok"}) =>
            LET e == ErrorOf(GenerationOutcome)
            IN  /\ e.status # 0
                /\ out.err = KnownError("", IF e.apiMessage # "" THEN e.apiMessage
                                            ELSE "OpenAI API Error: status - statusText")
        /\ GenerationOutcome \in {"ETIMEDOUT", "ECONNABORTED"} =>
            out.err.msg # ErrorOf("ERR_BAD_REQUEST").apiMessage

\* the same with the exceeded configured timeout left out of the connectivity
\* class: every other failed generation is reported as C11 says
C11_ButConfiguredTimeout ==
    (GenerationFailed /\ GenerationOutcome # "ECONNABORTED") =>
        /\ GenerationOutcome = "ok" => out.err = NoMessages
        /\ GenerationOutcome \in {"ENOTFOUND", "ETIMEDOUT"} =>
            out.err = KnownError("", "Error connecting to OpenAI API. Check your internet connection.")
        /\ (GenerationOutcome \notin {"ENOTFOUND", "ETIMEDOUT", "ok"}) =>
            LET e == ErrorOf(GenerationOutcome)
            IN  /\ e.status # 0
                /\ out.err = KnownError("", IF e.apiMessage # "" THEN e.apiMessage
                                            ELSE "OpenAI API Error: status - statusText")

-----------------------------------------------------------------------------
(* Exit status and error report *)

\* the operator cancelled a prompt or declined the single candidate
OperatorCancelled ==
    \E i \in At("prompt") : log[i].arg \in {<<"cancel">>, <<"no">>}

Committed ==
    /\ log # <<>> /\ log[Len(log)].op = "git commit"
    /\ out.outro = "Successfully committed!"

Terminal == pc \in {"Done", "Failed"}

\* the report of a failed run: the error's message, and the stack trace and
\* footer exactly for an error that is not a KnownError
FailureReport ==
    pc = "Failed" =>
        /\ out.exit # 0
        /\ out.outro = out.err.msg
        /\ out.err # NoError
        /\ out.stack <=> (out.err.kind # "KnownError")

\* C12: a run exits with status 0 exactly when it ends committed or cancelled
\* by the operator and with a non-zero status on every terminal failure; a
\* failure prints the error's message, and the stack trace and footer if and
\* only if the error is not a KnownError.
C12_ExitStatus ==
    /\ Terminal <=> (out.exit # -1)
    /\ Terminal => ((out.exit = 0) <=> (Committed \/ OperatorCancelled))
    /\ pc = "Done" => out.exit = 0
    /\ FailureReport

\* the operator accepted a candidate that is the empty string
AcceptedEmpty ==
    /\ selected = Str(<<>>)
    /\ \E i \in At("prompt") : log[i].arg \notin {<<"cancel">>, <<"no">>}

\* C12 holds of every run in which no empty candidate is accepted
C12_ButAcceptedEmpty ==
    ~AcceptedEmpty =>
        /\ Terminal <=> (out.exit # -1)
        /\ Terminal => ((out.exit = 0) <=> (Committed \/ OperatorCancelled))
        /\ pc = "Done" => out.exit = 0
        /\ FailureReport

-----------------------------------------------------------------------------
(* sanitizeMessage and deduplicateMessages on their own: any raw candidates *)

\* the longest raw candidate
MaxRawLen == 3

RawChars == {"a", ".", " ", "\n"}

RawStrings == SeqsUpTo(RawChars, MaxRawLen)

\* one raw candidate or two
RawLists == {<<x>> : x \in RawStrings} \cup {<<x, y>> : x \in RawStrings, y \in RawStrings}

InitSanitize ==
    /\ pc = "sanitize"
    /\ candidates \in RawLists
    /\ messages = <<>>
    /\ git = [staged |-> {}, modified |-> {}, branch |-> <<>>]
    /\ opts = [generate |-> Undefined, excludeFiles |-> {}, stageAll |-> FALSE,
               commitType |-> Undefined, useBranchPrefix |-> Bool(FALSE)]
    /\ env = NoEnv
    /\ file = EmptyFile
    /\ staged = NoStaged
    /\ config = EmptyConfig
    /\ cursor = 0
    /\ selected = Null
    /\ final = NoFinal
    /\ log = <<>>
    /\ out = NoOut

\* .map(sanitizeMessage) and deduplicateMessages applied to the raw candidates
SanitizeOnce ==
    /\ pc = "sanitize"
    /\ messages' = sanitizeThenDeduplicate(candidates)
    /\ pc' = "sanitized"
    /\ UNCHANGED <<opts, env, file, git, staged, config, candidates, cursor, selected,
                   final, log, out>>

NextSanitize == SanitizeOnce

SpecSanitize == InitSanitize /\ [][NextSanitize]_vars

\* C13: sanitizing each candidate and deduplicating, applied again to its own
\* result, gives the same sequence: same elements in the same first-seen order.
C13_SanitizeDedupIdempotent ==
    pc = "sanitized" => sanitizeThenDeduplicate(messages) = messages

\* C13 witness: two raw candidates that differ only in what sanitizing removes
\* become one message
C13_Witness ==
    /\ pc = "sanitized"
    /\ candidates = <<<<"a", ".", " ">>, <<"a", "\n">>>>
    /\ messages = <<<<"a">>>>

-----------------------------------------------------------------------------
(* Order of the steps *)

\* the step of the run an operation belongs to
StepOf(op) ==
    CASE op = "git rev-parse" -> 1
      [] op = "git add --update" -> 2
      [] op \in {"git diff --name-only", "git diff"} -> 3
      [] op = "getConfig" -> 4
      [] op = "createChatCompletion" -> 5
      [] op = "git branch --show-current" -> 6
      [] op = "prompt" -> 7
      [] op \in {"clipboard write", "git commit"} -> 8

\* the operations so far are in the order of the steps, every step but the
\* collection (two queries) and the prefixing (one query per candidate) with
\* one operation, and staging exactly in the runs that asked for it
InStepOrder ==
    /\ \A i, j \in DOMAIN log : i < j => StepOf(log[i].op) <= StepOf(log[j].op)
    /\ \A op \in {"git rev-parse", "git add --update", "git diff --name-only", "git diff",
                  "getConfig", "createChatCompletion", "prompt", "clipboard write",
                  "git commit"} : Cardinality(At(op)) <= 1
    /\ log # <<>> => log[1].op = "git rev-parse"
    /\ Did("git add --update") <=> (opts.stageAll /\ Len(log) >= 2)
    /\ \A i \in At("clipboard write") : \A j \in At("git commit") : i < j

\* the completion call comes after the repository check, the collection of
\* staged changes that are not empty and the strict resolution of the
\* configuration
CompletionAfterItsSteps ==
    Did("createChatCompletion") =>
        /\ Did("git rev-parse") /\ Did("git diff --name-only") /\ Did("git diff")
        /\ Did("getConfig")
        /\ staged.files # <<>>
        /\ LET r == getConfig(loadConfig(opts, env), FALSE, file)
           IN  r.ok /\ config = effectiveBranchPrefix(opts.useBranchPrefix, r.cfg)

\* git commit comes after a generation that returned a candidate and a prompt
\* at which the operator selected one of the presented candidates
CommitAfterItsSteps ==
    Did("git commit") =>
        /\ \E i \in At("createChatCompletion") : log[i].arg = <<"ok">>
        /\ candidates # <<>>
        /\ \E i \in At("prompt") : log[i].arg \notin {<<"cancel">>, <<"no">>}
        /\ selected \in {Str(messages[i]) : i \in DOMAIN messages}
        /\ \A i \in At("git commit") : log[i].arg = selected.s

\* C14: the steps of a run happen in the order RepoCheck, StageAll if asked
\* for, CollectChanges, LoadConfig, Generate, ApplyPrefix, Select, Commit; no
\* step follows a failure or the end of the run; the completion call is made
\* at most once and only after the repository check, the collection of
\* non-empty staged changes and the strict configuration resolution; git
\* commit is invoked at most once and only after a generation with a candidate
\* and the selection of a presented candidate.
C14_StepOrder ==
    /\ [](InStepOrder /\ CompletionAfterItsSteps /\ CommitAfterItsSteps)
    /\ [][pc \notin {"Failed", "Done"}]_vars

\* C14 witness: a run with every step, staging and prefixing included, that
\* ends committed
C14_Witness ==
    /\ pc = "Done"
    /\ Did("git add --update")
    /\ Cardinality(At("git branch --show-current")) = 2
    /\ Did("git commit")

\* a failed completion call ends the run before any prompt
C14_WitnessFailure ==
    /\ pc = "Failed"
    /\ log[Len(log)].op = "createChatCompletion"

-----------------------------------------------------------------------------
(* setConfigs: two invocations of config set against one store *)

\* the most key=value pairs of the first invocation
MaxPairs == 2

Procs == {1, 2}

\* ini.stringify: every property of the object as key=String(value)
iniStringify(object) ==
    [key \in KeySet |->
        IF object[key] = Undefined THEN Absent ELSE Line(String(object[key]))]

\* the text setConfigs stores for a parsed value
storedText(parsed) ==
    IF parsed.t = "bool" THEN (IF Truthy(parsed) THEN S_true ELSE S_false)
    ELSE String(parsed)

\* the loop of setConfigs over keyValues from pair i on, cfg the object read
\* from the store
RECURSIVE setConfigsLoop(_, _, _)
setConfigsLoop(i, keyValues, cfg) ==
    IF i > Len(keyValues) THEN [ok |-> TRUE, cfg |-> cfg, err |-> NoError]
    ELSE LET key == keyValues[i][1]
             value == keyValues[i][2]
         IN  IF key \notin KeySet
             THEN [ok |-> FALSE, cfg |-> cfg,
                   err |-> KnownError(key, "Invalid config property")]
             ELSE LET r == configParsers(key, Str(value))
                  IN  IF ~r.ok
                      THEN [ok |-> FALSE, cfg |-> cfg,
                            err |-> IF r.err.kind = "KnownError" THEN r.err
                                    ELSE KnownError(key, "Error setting key")]
                      ELSE setConfigsLoop(i + 1, keyValues,
                             [cfg EXCEPT ![key] = Str(storedText(r.val))])

\* the pairs an invocation can be given
SetPairs ==
    {<<"generate", <<"2">>>>, <<"generate", <<"9">>>>, <<"bogus", <<"x">>>>,
     <<K_UBP, <<"y","e","s">>>>, <<K_UBP, <<"o","f","f">>>>, <<"proxy", <<>>>>,
     <<"locale", <<"f","r">>>>}

\* the stores the invocations start from
SetStores ==
    {EmptyFile,
     [EmptyFile EXCEPT ![K_KEY] = Line(S_key)],
     [EmptyFile EXCEPT !["generate"] = Line(<<"3">>), ![K_UBP] = Line(<<"Y","e","s">>)],
     [EmptyFile EXCEPT !["model"] = Line(<<"g","p","t","-","4">>), ![K_UBP] = Line(S_false)]}

InitSet ==
    /\ pc = [p \in Procs |-> "readConfigFile"]
    /\ opts \in {[p \in Procs |-> IF p = 1 THEN kv1 ELSE <<kv2>>] :
                    kv1 \in SeqsUpTo(SetPairs, MaxPairs) \ {<<>>},
                    kv2 \in {<<"locale", <<"f","r">>>>, <<"generate", <<"2">>>>,
                             <<"timeout", <<"9">>>>}}
    /\ file \in SetStores
    /\ config = [p \in Procs |-> EmptyConfig]
    /\ out = [p \in Procs |-> NoError]
    /\ log = <<>>
    /\ env = NoEnv
    /\ git = [staged |-> {}, modified |-> {}, branch |-> <<>>]
    /\ staged = NoStaged
    /\ candidates = <<>>
    /\ messages = <<>>
    /\ cursor = 0
    /\ selected = Null
    /\ final = NoFinal

\* const config = await readConfigFile(), then the loop over keyValues up to
\* the call of fs.writeFile
SetRead(p) ==
    /\ pc[p] = "readConfigFile"
    /\ log' = Append(log, Event("readFile", [proc |-> p, store |-> file]))
    /\ LET r == setConfigsLoop(1, opts[p], readConfigFile(file))
       IN  IF r.ok
           THEN /\ config' = [config EXCEPT ![p] = r.cfg]
                /\ pc' = [pc EXCEPT ![p] = "writeFile"]
                /\ out' = out
           ELSE /\ config' = config
                /\ pc' = [pc EXCEPT ![p] = "failed"]
                /\ out' = [out EXCEPT ![p] = r.err]
    /\ UNCHANGED <<opts, env, file, git, staged, candidates, messages, cursor, selected, final>>

\* a write that puts the invocation's pairs into the store as it is now
SetWrite_merge(p) ==
    /\ pc[p] = "writeFile"
    /\ file' = iniStringify(setConfigsLoop(1, opts[p], readConfigFile(file)).cfg)
    /\ log' = Append(log, Event("writeFile", [proc |-> p, store |-> file']))
    /\ pc' = [pc EXCEPT ![p] = "done"]
    /\ UNCHANGED <<opts, env, git, staged, config, candidates, messages, cursor, selected,
                   final, out>>

\* await fs.writeFile(configPath, ini.stringify(config), "utf8")
SetWrite(p) ==
    /\ pc[p] = "writeFile"
    /\ \E outcome \in {"ok", "error"} :
        IF outcome = "ok"
        THEN /\ file' = iniStringify(config[p])
             /\ log' = Append(log, Event("writeFile", [proc |-> p, store |-> file']))
             /\ pc' = [pc EXCEPT ![p] = "done"]
             /\ out' = out
        ELSE /\ file' = file
             /\ log' = log
             /\ pc' = [pc EXCEPT ![p] = "failed"]
             /\ out' = [out EXCEPT ![p] = KnownError("", "Failed to save config")]
    /\ UNCHANGED <<opts, env, git, staged, config, candidates, messages, cursor, selected, final>>

NextSet == \E p \in Procs : SetRead(p) \/ SetWrite(p)

SpecSet == InitSet /\ [][NextSet]_vars

\* the store an invocation read
Snapshot(p) == log[CHOOSE i \in At("readFile") : log[i].arg.proc = p].arg.store

\* the writes of an invocation
WritesOf(p) == {i \in At("writeFile") : log[i].arg.proc = p}

\* the keys an invocation sets
KeysOf(p) == {opts[p][i][1] : i \in DOMAIN opts[p]}

\* C15: config set reads the whole store and later rewrites the whole store
\* from what it read, with no lock: every write puts the writer's snapshot
\* with the writer's pairs in place of the store, whatever another invocation
\* wrote since the snapshot, so two invocations setting different keys can both
\* complete with only one of the two updates in the final store.
C15_WritesOwnSnapshot ==
    /\ \A p \in Procs : \A i \in WritesOf(p) :
        log[i].arg.store =
            iniStringify(setConfigsLoop(1, opts[p], readConfigFile(Snapshot(p))).cfg)
    /\ At("writeFile") # {} =>
        file = log[CHOOSE i \in At("writeFile") : \A j \in At("writeFile") : j <= i].arg.store

\* C15 witness: both invocations are done without error, they set different
\* keys, and the final store has the second update but not the first
C15_Witness ==
    /\ \A p \in Procs : pc[p] = "done" /\ out[p] = NoError
    /\ opts[1] = <<<<"locale", <<"f","r">>>>>>
    /\ opts[2] = <<<<"generate", <<"2">>>>>>
    /\ file["generate"] = Line(<<"2">>)
    /\ ~file["locale"].has

-----------------------------------------------------------------------------
(* setConfigs is all-or-nothing *)

\* the pair's key is not a configuration key or its value fails the validator
InvalidPair(pair) ==
    pair[1] \notin KeySet \/ ~configParsers(pair[1], Str(pair[2])).ok

AnyInvalid(p) == \E i \in DOMAIN opts[p] : InvalidPair(opts[p][i])

\* the validated value of the last pair of the invocation that sets key
ValidatedOf(p, key) ==
    LET last == CHOOSE i \in DOMAIN opts[p] :
                    /\ opts[p][i][1] = key
                    /\ \A j \in DOMAIN opts[p] : opts[p][j][1] = key => j <= i
    IN  configParsers(key, Str(opts[p][last][2])).val

\* the store the invocation wrote
WrittenBy(p) == log[CHOOSE i \in WritesOf(p) : TRUE].arg.store

\* the stored entry is the pair: a boolean as its token, and in every case a
\* text that reads back as the pair's validated value
HoldsPair(entry, key, parsed) ==
    /\ entry.has
    /\ parsed.t = "bool" => entry.text = (IF Truthy(parsed) THEN S_true ELSE S_false)
    /\ configParsers(key, iniDecode(entry)) = Returns(parsed)

\* an invocation with an invalid pair fails with a KnownError and writes nothing
FailsWhole(p) ==
    /\ (AnyInvalid(p) /\ pc[p] # "readConfigFile") =>
        pc[p] = "failed" /\ out[p].kind = "KnownError"
    /\ pc[p] = "failed" => out[p].kind = "KnownError" /\ WritesOf(p) = {}

\* C18: setConfigs is all-or-nothing: with an unrecognized key or a value that
\* fails its validator it fails with a user-facing error and writes nothing;
\* with all pairs valid it rewrites the store once with every pair, booleans
\* as the tokens true and false, and every key that is not in the list keeps
\* its previous value.
C18_AllOrNothing ==
    \A p \in Procs :
        /\ FailsWhole(p)
        /\ pc[p] = "done" =>
            /\ ~AnyInvalid(p)
            /\ Cardinality(WritesOf(p)) = 1
            /\ \A key \in KeySet :
                IF key \in KeysOf(p)
                THEN HoldsPair(WrittenBy(p)[key], key, ValidatedOf(p, key))
                ELSE WrittenBy(p)[key] = Snapshot(p)[key]

\* the invocation clears the proxy: its last proxy pair has the empty value
ClearsProxy(p) ==
    "proxy" \in KeysOf(p) /\ ValidatedOf(p, "proxy") = Undefined

\* C18 holds of the invocations that do not clear the proxy, with a key that is
\* not in the list keeping the value that its previous text reads as
C18_ButClearedProxy ==
    \A p \in Procs :
        /\ FailsWhole(p)
        /\ (pc[p] = "done" /\ ~ClearsProxy(p)) =>
            /\ ~AnyInvalid(p)
            /\ Cardinality(WritesOf(p)) = 1
            /\ \A key \in KeySet :
                IF key \in KeysOf(p)
                THEN HoldsPair(WrittenBy(p)[key], key, ValidatedOf(p, key))
                ELSE readConfigFile(WrittenBy(p))[key] = readConfigFile(Snapshot(p))[key]

\* clearing the proxy stores the text undefined, and the store no longer
\* resolves in strict mode
ClearedProxyBreaksStore ==
    \E p \in Procs :
        /\ pc[p] = "done" /\ ClearsProxy(p)
        /\ WrittenBy(p)["proxy"] = Line(S_undefined)
        /\ ~configParsers("proxy", iniDecode(WrittenBy(p)["proxy"])).ok

-----------------------------------------------------------------------------
(* Accepted selections *)

Presented == pc \in {"Select", "CreateCommit", "Commit", "Done"} /\ messages # <<>>

\* the operator accepted option k at the prompt
Accepted(k) == \E i \in At("prompt") : log[i].arg = NumberToString(k)

\* an accepted option goes to the commit as it was presented
AcceptedIsCommitted ==
    \A k \in DOMAIN messages :
        Accepted(k) =>
            /\ selected = Str(messages[k])
            /\ out.outro # "Commit cancelled"
            /\ pc \in {"CreateCommit", "Commit"} \/ Did("git commit")

\* C16: every candidate presented at the Select step is a non-empty string,
\* and when the operator accepts a candidate the run goes on to the commit
\* with that candidate and does not end with Commit cancelled.
C16_AcceptedNeverCancelled ==
    /\ Presented => \A k \in DOMAIN messages : messages[k] # <<>>
    /\ AcceptedIsCommitted

\* C16 holds of the runs in which no candidate sanitizes to the empty string
C16_ButEmptyCandidate ==
    (\A k \in DOMAIN candidates : candidates[k] # <<>>) =>
        /\ Presented => \A k \in DOMAIN messages : messages[k] # <<>>
        /\ AcceptedIsCommitted

\* the operator confirms the single candidate, which is the empty string, and
\* the run ends with Commit cancelled and status 0
AcceptedEmptyIsCancelled ==
    /\ pc = "Done"
    /\ messages = <<<<>>>>
    /\ Accepted(1)
    /\ out.outro = "Commit cancelled"
    /\ ~Did("git commit")

-----------------------------------------------------------------------------
(* One non-empty prefix per run *)

\* candidate k is presented with something in front of it
Prefixed(k) == messages[k] # candidates[k]

\* what is in front of ": candidate" in presented message k
PrefixOf(k) == SubSeq(messages[k], 1, Len(messages[k]) - Len(candidates[k]) - 2)

\* the branch query made for candidate k failed
QueryFailed(k) == k \in DOMAIN BranchQueries /\ BranchQueries[k].arg = <<"error">>

\* git has no name for the current branch, as on a detached HEAD
NoBranchName == trim(git.branch) = <<>>

\* the presented prefixes are not empty and are one and the same, and a
\* candidate whose branch name could not be obtained is presented and
\* committed without a prefix
OnePrefix ==
    /\ \A k \in DOMAIN messages :
        /\ Prefixed(k) =>
            /\ Len(messages[k]) >= Len(candidates[k]) + 2
            /\ messages[k] = withPrefix(PrefixOf(k), candidates[k])
            /\ PrefixOf(k) # <<>>
        /\ (NoBranchName \/ QueryFailed(k)) => ~Prefixed(k)
    /\ \A j, k \in DOMAIN messages :
        (Prefixed(j) /\ Prefixed(k)) => PrefixOf(j) = PrefixOf(k)
    /\ \A i \in At("git commit") :
        /\ log[i].arg \in Range(messages)
        /\ NoBranchName => log[i].arg \in Range(candidates)

\* C17: a prefix that is applied is non-empty and the same for all candidates
\* of the run; when no branch name can be obtained, because the branch query
\* fails or gives the empty name of a detached HEAD, the candidates and the
\* committed message are left without a prefix and never become
\* ": candidate".
C17_OneNonEmptyPrefix ==
    Presented => OnePrefix

\* C17 holds of the runs on a branch that has a name
C17_ButDetachedHead ==
    (Presented /\ ~NoBranchName) => OnePrefix

\* on a detached HEAD with the branch prefix on, ": candidate" is committed
DetachedHeadCommitsColon ==
    /\ NoBranchName
    /\ \E i \in At("git commit") : \E k \in DOMAIN candidates :
        log[i].arg = <<":", " ">> \o candidates[k]

====
